---- MODULE Spec2Model ----
(***************************************************************************)
(* Star-rating forecast engine of Quality-Measures (src/Scripts):          *)
(*   starThresholdParsing.py   parse_threshold, create_measure_thresholds, *)
(*                             get_star_rating                             *)
(*   calculateStarRating.py    calculate_star_ratings                      *)
(*   monteCarloSimulation.py   run_monte_carlo_simulation                  *)
(*   improvementPath.py        calculate_improvement_path,                 *)
(*                             generate_improvement_report                 *)
(*   measureImprovmentValuation.py  evaluate_measure_improvement_value     *)
(*                                                                         *)
(* Numbers.  Scores, bounds and weights are integers (points).  The float  *)
(* values nan, +inf and -inf are three integers outside the score domain;  *)
(* every operator that computes with them treats them as the float does.   *)
(* A composite rating total_score / total_weight is the exact fraction     *)
(* [num, den]; nan is the fraction with den = 0, and a comparison of a     *)
(* fraction with a cutoff is done by cross-multiplication.  A probability  *)
(* np.mean(mask) is kept as the number of draws that pass the mask.        *)
(***************************************************************************)
EXTENDS Integers, Sequences, FiniteSets, TLC

VARIABLES
    thresholds,          \* dict measure -> list of (lower, upper, star)
    measure_weights,     \* dict measure -> weight
    measure_id,          \* get_star_rating: argument
    score,               \* get_star_rating: argument
    gsr,                 \* get_star_rating: outcome (return value or exception)
    scores_df,           \* calculate_star_ratings: argument, a list of rows
    csr,                 \* calculate_star_ratings: outcome
    has_row,             \* run_monte_carlo_simulation: df has a row of (contract_id, year)
    contract_row,        \* that row: measure -> observed value or nan
    models,              \* the measures that have a fitted model
    adjustments,         \* dict measure -> adjustment (empty for None)
    n_simulations,
    pc,                  \* position in run_monte_carlo_simulation
    draw_i,              \* the draw being made (loop variable i), 1..n_simulations
    col_k,               \* position of the draw in measure_cols
    sim_measures,        \* dict measure -> value of this draw
    sim_origin,          \* how each measure of this draw was obtained, with its raw sample
    simulated_ratings,   \* array of n_simulations composite ratings
    simulated_measures,  \* dict modelled measure -> array of n_simulations values
    rating_probs,        \* dict level -> number of draws counted toward it
    raised,              \* the exception that left the function, or "none"
    current_stars,       \* calculate_improvement_path: star_ratings.iloc[0]
    current_distances,   \* distances.iloc[0]
    current_weighted_avg,
    target_rating,
    improvement_path,    \* outcome of calculate_improvement_path
    report,              \* outcome of generate_improvement_report
    star_values,         \* evaluate_measure_improvement_value: dict level -> value
    valuation,           \* outcome of evaluate_measure_improvement_value
    rng_state,           \* state of the global generator np.random
    run_starts,          \* the generator state each simulation call started in
    returned             \* the results the simulation calls returned, in order

pathVars == <<current_stars, current_distances, current_weighted_avg, target_rating,
              improvement_path, report>>
valueVars == <<star_values, valuation>>
genVars == <<rng_state, run_starts, returned>>
callVars == <<measure_id, score, gsr, scores_df, csr, pathVars, valueVars, genVars>>
simInputs == <<has_row, contract_row, models, adjustments, n_simulations>>
simVars == <<pc, draw_i, col_k, sim_measures, sim_origin, simulated_ratings, simulated_measures,
             rating_probs, raised>>
vars == <<thresholds, measure_weights, measure_id, score, gsr, scores_df, csr,
          has_row, contract_row, models, adjustments, n_simulations,
          pc, draw_i, col_k, sim_measures, sim_origin, simulated_ratings, simulated_measures,
          rating_probs, raised,
          current_stars, current_distances, current_weighted_avg, target_rating,
          improvement_path, report, star_values, valuation,
          rng_state, run_starts, returned>>

-----------------------------------------------------------------------------
(* Float sentinels *)

NaN == -999999
PosInf == 1000000
NegInf == -1000000

isna(x) == x = NaN

\* a - b in float arithmetic, a possibly infinite, b finite
Sub(a, b) == IF a = PosInf THEN PosInf ELSE IF a = NegInf THEN NegInf ELSE a - b

\* abs() of a float
Abs(x) == IF x = NegInf \/ x = PosInf THEN PosInf ELSE IF x < 0 THEN 0 - x ELSE x

-----------------------------------------------------------------------------
(* The measures (columns named "C: ...") *)

measure_cols == <<"C: A", "C: B">>
Measures == {measure_cols[k] : k \in 1..Len(measure_cols)}

-----------------------------------------------------------------------------
(* Cut-point cells and parse_threshold.  A cell of the cut-point sheet is   *)
(* modelled by the branch of parse_threshold its text takes.                *)

Rng(a, b) == [kind |-> "range", a |-> a, b |-> b]    \* '>= a % to < b %'
LtC(b) == [kind |-> "lt", a |-> b, b |-> b]          \* '< b %', '<= b %'
GeC(a) == [kind |-> "ge", a |-> a, b |-> a]          \* '>= a %'
GtC(a) == [kind |-> "gt", a |-> a, b |-> a]          \* '> a %'
Hundred == [kind |-> "100", a |-> 100, b |-> 100]    \* '100 %'
NACell == [kind |-> "na", a |-> 0, b |-> 0]          \* empty cell
BadCell == [kind |-> "bad", a |-> 0, b |-> 0]        \* any other text

parse_threshold(cell) ==
    CASE cell.kind = "na" -> [exc |-> "none", none |-> TRUE, lo |-> 0, hi |-> 0]
      [] cell.kind = "range" -> [exc |-> "none", none |-> FALSE, lo |-> cell.a, hi |-> cell.b]
      [] cell.kind = "lt" -> [exc |-> "none", none |-> FALSE, lo |-> NegInf, hi |-> cell.b]
      [] cell.kind = "ge" -> [exc |-> "none", none |-> FALSE, lo |-> cell.a, hi |-> PosInf]
      [] cell.kind = "gt" -> [exc |-> "none", none |-> FALSE, lo |-> cell.a, hi |-> PosInf]
      [] cell.kind = "100" -> [exc |-> "none", none |-> FALSE, lo |-> 100, hi |-> 100]
      [] OTHER -> [exc |-> "ValueError", none |-> FALSE, lo |-> 0, hi |-> 0]

\* sorted(thresholds, key=lambda x: x[2]): stable insertion by star rating
RECURSIVE InsertByStar(_, _)
InsertByStar(sorted, band) ==
    IF sorted = <<>> THEN <<band>>
    ELSE IF band[3] < Head(sorted)[3] THEN <<band>> \o sorted
    ELSE <<Head(sorted)>> \o InsertByStar(Tail(sorted), band)

RECURSIVE SortByStar(_)
SortByStar(bands) ==
    IF bands = <<>> THEN <<>>
    ELSE InsertByStar(SortByStar(SubSeq(bands, 1, Len(bands) - 1)), bands[Len(bands)])

\* the bands of one column: unparseable and empty cells are skipped
RECURSIVE ColumnBands(_)
ColumnBands(rows) ==
    IF rows = <<>> THEN <<>>
    ELSE LET row == Head(rows)
             parsed == parse_threshold(row.cell)
         IN IF row.cell.kind # "na" /\ parsed.exc = "none" /\ ~parsed.none
            THEN <<<<parsed.lo, parsed.hi, row.star>>>> \o ColumnBands(Tail(rows))
            ELSE ColumnBands(Tail(rows))

create_measure_thresholds(df) ==
    LET kept == {m \in DOMAIN df : ColumnBands(df[m]) # <<>>}
    IN [m \in kept |-> SortByStar(ColumnBands(df[m]))]

-----------------------------------------------------------------------------
(* get_star_rating *)

Min(S) == CHOOSE x \in S : \A y \in S : x <= y

\* max(measure_ranges, key=lambda x: x[2]): the first band of the highest star
highest_range(measure_ranges) ==
    LET top == CHOOSE s \in {measure_ranges[k][3] : k \in 1..Len(measure_ranges)} :
                   \A k \in 1..Len(measure_ranges) : measure_ranges[k][3] <= s
    IN measure_ranges[Min({k \in 1..Len(measure_ranges) : measure_ranges[k][3] = top})]

\* mutation: the upper bound taken as inclusive
InBand_closed(band, s) == band[1] <= s /\ s <= band[2]

\* lower_bound <= score < upper_bound
InBand(band, s) == band[1] <= s /\ s < band[2]

\* mutation: the rescue rule taken as strict
rescued_strict(measure_ranges, s) == s > highest_range(measure_ranges)[1]

\* score >= highest_range[0]
rescued(measure_ranges, s) == s >= highest_range(measure_ranges)[1]

get_star_rating(m, s, th) ==
    IF m \notin DOMAIN th THEN [exc |-> "KeyError", star |-> NaN]
    ELSE LET measure_ranges == th[m]
             hits == {k \in 1..Len(measure_ranges) : InBand(measure_ranges[k], s)}
         IN IF hits # {} THEN [exc |-> "none", star |-> measure_ranges[Min(hits)][3]]
            ELSE IF rescued(measure_ranges, s)
                 THEN [exc |-> "none", star |-> highest_range(measure_ranges)[3]]
                 ELSE [exc |-> "ValueError", star |-> NaN]

-----------------------------------------------------------------------------
(* calculate_star_ratings *)

\* [r for r in measure_ranges if r[2] == star]: indices of the bands of a level
RangesOfStar(measure_ranges, star) ==
    {k \in 1..Len(measure_ranges) : measure_ranges[k][3] = star}

\* mutation: the distance taken as an absolute gap
distance_to_abs(next_range, s) == Abs(Sub(next_range[1], s))

\* distance = next_range[0] - score
distance_to(next_range, s) == Sub(next_range[1], s)

\* mutation: only the KeyError of get_star_rating is caught
rate_score_uncaught(m, s, th) ==
    IF isna(s) THEN [exc |-> "none", star |-> NaN, distance |-> NaN]
    ELSE LET g == get_star_rating(m, s, th)
         IN IF g.exc = "KeyError" THEN [exc |-> "none", star |-> NaN, distance |-> NaN]
            ELSE IF g.exc = "ValueError"
                 THEN [exc |-> "ValueError", star |-> NaN, distance |-> NaN]
            ELSE IF g.star < 5
                 THEN LET nexts == RangesOfStar(th[m], g.star + 1)
                      IN IF nexts = {}
                         THEN [exc |-> "IndexError", star |-> NaN, distance |-> NaN]
                         ELSE [exc |-> "none", star |-> g.star,
                               distance |-> distance_to(th[m][Min(nexts)], s)]
                 ELSE [exc |-> "none", star |-> g.star, distance |-> 0]

\* one score of one measure: the appended (star, distance), or the exception
\* that leaves the function (only KeyError and ValueError are caught)
rate_score(m, s, th) ==
    IF isna(s) THEN [exc |-> "none", star |-> NaN, distance |-> NaN]
    ELSE LET g == get_star_rating(m, s, th)
         IN IF g.exc # "none" THEN [exc |-> "none", star |-> NaN, distance |-> NaN]
            ELSE IF g.star < 5
                 THEN LET nexts == RangesOfStar(th[m], g.star + 1)
                      IN IF nexts = {}
                         THEN [exc |-> "IndexError", star |-> NaN, distance |-> NaN]
                         ELSE [exc |-> "none", star |-> g.star,
                               distance |-> distance_to(th[m][Min(nexts)], s)]
                 ELSE [exc |-> "none", star |-> g.star, distance |-> 0]

RECURSIVE SumOver(_, _, _)
SumOver(S, f, g) ==
    IF S = {} THEN 0
    ELSE LET m == CHOOSE x \in S : TRUE
         IN f[m] * g[m] + SumOver(S \ {m}, f, g)

FracNaN == [num |-> 0, den |-> 0]
FracZero == [num |-> 0, den |-> 1]

\* the measures that enter the weighted average of one row
Included(stars, weights) ==
    {m \in DOMAIN weights : m \in DOMAIN stars /\ ~isna(stars[m])}

\* mutation: an average of 0 when no weight is included
weighted_score_zero(stars, weights) ==
    LET inc == Included(stars, weights)
        total_score == SumOver(inc, stars, weights)
        total_weight == SumOver(inc, [m \in inc |-> 1], weights)
    IN IF total_weight > 0 THEN [num |-> total_score, den |-> total_weight]
       ELSE FracZero

weighted_score(stars, weights) ==
    LET inc == Included(stars, weights)
        total_score == SumOver(inc, stars, weights)
        total_weight == SumOver(inc, [m \in inc |-> 1], weights)
    IN IF total_weight > 0 THEN [num |-> total_score, den |-> total_weight]
       ELSE FracNaN

Columns(df) == DOMAIN df[1]

\* scores_df.columns that have a weight, in column order
RatedColumns(df, weights) ==
    SelectSeq(measure_cols, LAMBDA m : m \in Columns(df) /\ m \in DOMAIN weights)

calculate_star_ratings(df, th, weights) ==
    LET cols == RatedColumns(df, weights)
        colset == {cols[c] : c \in 1..Len(cols)}
        cell(r, m) == rate_score(m, df[r][m], th)
        \* the scores in the order the loops visit them: column by column, row by row
        failing == {<<c, r>> \in (1..Len(cols)) \X (1..Len(df)) : cell(r, cols[c]).exc # "none"}
        first == CHOOSE f \in failing :
                     \A g \in failing : f[1] < g[1] \/ (f[1] = g[1] /\ f[2] <= g[2])
        stars == [r \in 1..Len(df) |-> [m \in colset |-> cell(r, m).star]]
    IN IF failing # {}
       THEN [exc |-> cell(first[2], cols[first[1]]).exc, at |-> <<cols[first[1]], first[2]>>,
             star_ratings |-> <<>>, distances |-> <<>>, weighted_avg |-> <<>>]
       ELSE [exc |-> "none", at |-> <<>>,
             star_ratings |-> stars,
             distances |-> [r \in 1..Len(df) |-> [m \in colset |-> cell(r, m).distance]],
             weighted_avg |-> [r \in 1..Len(df) |-> weighted_score(stars[r], weights)]]

-----------------------------------------------------------------------------
(* Inputs *)

MaxRows == 2

Row(star, cell) == [star |-> star, cell |-> cell]

\* the spec's example table, every band closed
ColStd == <<Row(1, Rng(0, 55)), Row(2, Rng(55, 70)), Row(3, Rng(70, 85)),
            Row(4, Rng(85, 95)), Row(5, Rng(95, 101))>>
\* a higher-is-better measure with open ends, sheet listed from 5 stars down
ColOpen == <<Row(5, GeC(82)), Row(4, Rng(75, 82)), Row(3, Rng(67, 75)),
             Row(2, Rng(53, 67)), Row(1, LtC(53))>>
\* a lower-is-better measure
ColInv == <<Row(1, GtC(13)), Row(2, Rng(11, 13)), Row(3, Rng(10, 11)),
            Row(4, Rng(8, 10)), Row(5, LtC(8))>>
\* the 2-star cell does not parse and is skipped
ColSkip == <<Row(1, Rng(0, 55)), Row(2, BadCell), Row(3, Rng(70, 85)),
             Row(4, Rng(85, 95)), Row(5, Rng(95, 101))>>
\* the 5-star cell is '100 %'
ColCap == <<Row(1, LtC(60)), Row(2, Rng(60, 70)), Row(3, Rng(70, 80)),
            Row(4, Rng(80, 100)), Row(5, Hundred)>>
\* a column without cut points
ColNone == <<Row(1, NACell), Row(2, NACell), Row(3, NACell), Row(4, NACell),
             Row(5, NACell)>>

Sheet(a, b) == [m \in Measures |-> IF m = "C: A" THEN a ELSE b]

CutpointSheets ==
    {Sheet(a, b) : a \in {ColStd, ColOpen, ColInv, ColSkip, ColCap, ColNone},
                   b \in {ColOpen, ColNone}}

ThresholdTables == {create_measure_thresholds(sheet) : sheet \in CutpointSheets}

StarsSheets ==
    {Sheet(ColStd, ColOpen), Sheet(ColInv, ColOpen), Sheet(ColSkip, ColOpen),
     Sheet(ColCap, ColNone), Sheet(ColNone, ColOpen)}

WeightConfigs ==
    { [m \in Measures |-> IF m = "C: A" THEN 1 ELSE 3],
      [m \in {"C: A"} |-> 1],
      [m \in Measures |-> 0] }

ClassifyScores == {-5, 0, 8, 12, 54, 55, 74, 95, 100, 101}
FrameScores == {NaN, -5, 9, 74, 101}

DataFrames ==
    UNION {[1..n -> [Measures -> FrameScores]] : n \in 1..MaxRows}

PendingGsr == [exc |-> "pending", star |-> NaN]
PendingCsr == [exc |-> "pending", at |-> <<>>, star_ratings |-> <<>>, distances |-> <<>>,
               weighted_avg |-> <<>>]

\* no simulation is running
NoSimulation ==
    /\ has_row = FALSE
    /\ contract_row = <<>>
    /\ models = {}
    /\ adjustments = <<>>
    /\ n_simulations = 0
    /\ pc = "idle"
    /\ draw_i = 0
    /\ col_k = 0
    /\ sim_measures = <<>>
    /\ sim_origin = <<>>
    /\ simulated_ratings = <<>>
    /\ simulated_measures = <<>>
    /\ rating_probs = <<>>
    /\ raised = "none"

NoPath == [exc |-> "pending", empty |-> TRUE, rows |-> <<>>, target_idx |-> -1,
           measures_needed |-> <<>>]
NoReport == [exc |-> "pending", recommended |-> <<>>, note |-> FALSE]

\* no improvement path is asked for
NoPathCall ==
    /\ current_stars = <<>>
    /\ current_distances = <<>>
    /\ current_weighted_avg = 0
    /\ target_rating = 0
    /\ improvement_path = NoPath
    /\ report = NoReport

NoValue == [exc |-> "pending"]

\* no valuation is asked for, and the generator is not looked at
NoValuation ==
    /\ rng_state = 0
    /\ run_starts = <<>>
    /\ returned = <<>>
    /\ star_values = <<>>
    /\ valuation = NoValue

-----------------------------------------------------------------------------
(* Specification of get_star_rating: one call on drawn arguments *)

InitClassify ==
    /\ thresholds \in ThresholdTables
    /\ measure_weights = [m \in Measures |-> 1]
    /\ measure_id \in Measures
    /\ score \in ClassifyScores
    /\ gsr = PendingGsr
    /\ scores_df = <<>>
    /\ csr = PendingCsr
    /\ NoSimulation
    /\ NoPathCall
    /\ NoValuation

Classify ==
    /\ gsr.exc = "pending"
    /\ gsr' = get_star_rating(measure_id, score, thresholds)
    /\ UNCHANGED <<thresholds, measure_weights, measure_id, score, scores_df, csr>>
    /\ UNCHANGED <<simInputs, simVars, pathVars, valueVars, genVars>>

NextClassify == Classify

SpecClassify == InitClassify /\ [][NextClassify]_vars

-----------------------------------------------------------------------------
(* Specification of calculate_star_ratings: one call on drawn arguments *)

InitStars ==
    /\ thresholds \in {create_measure_thresholds(sheet) : sheet \in StarsSheets}
    /\ measure_weights \in WeightConfigs
    /\ scores_df \in DataFrames
    /\ csr = PendingCsr
    /\ measure_id = ""
    /\ score = NaN
    /\ gsr = PendingGsr
    /\ NoSimulation
    /\ NoPathCall
    /\ NoValuation

Calculate ==
    /\ csr.exc = "pending"
    /\ csr' = calculate_star_ratings(scores_df, thresholds, measure_weights)
    /\ UNCHANGED <<thresholds, measure_weights, measure_id, score, gsr, scores_df>>
    /\ UNCHANGED <<simInputs, simVars, pathVars, valueVars, genVars>>

NextStars == Calculate

SpecStars == InitStars /\ [][NextStars]_vars

-----------------------------------------------------------------------------
(* run_monte_carlo_simulation *)

MaxSims == 2

\* a value of the sampled distribution is a fraction d / SampleDen of 1
SampleDen == 100
\* the values get_beta_regression_distribution yields for the contract row
Distribution == {3, 60, 99}

\* distribution[sample_idx] * 100
scale_sample(d) == (d * 100) \div SampleDen

\* mutation: only the upper end is clipped
clip_upper(v) == IF v > 100 THEN 100 ELSE v

\* the value kept within 0..100
clip(v) == IF v > 100 THEN 100 ELSE IF v < 0 THEN 0 ELSE v

\* if adjustments and measure in adjustments: add and clip
apply_adjustment(v, m, adj) ==
    IF m \in DOMAIN adj THEN clip(v + adj[m]) ELSE v

Put(f, key, v) == [x \in DOMAIN f \cup {key} |-> IF x = key THEN v ELSE f[x]]

\* mutation: the observed value is stored without the test for nan
use_actual_unchecked(sm, m, row) == Put(sm, m, row[m])

\* a measure without model: sim_measures[measure] = the observed value, if not nan
use_actual(sm, m, row) == IF ~isna(row[m]) THEN Put(sm, m, row[m]) ELSE sm

\* the fixed levels and cutoffs; a cutoff c stands for c / CutoffDen
rating_levels == <<1, 2, 3, 4, 5>>
rating_cutoffs == <<7, 11, 13, 15, 17, 19>>
CutoffDen == 4

\* rating < cutoff and rating >= cutoff on floats: both false for nan
Below(r, c) == r.den > 0 /\ CutoffDen * r.num < c * r.den
AtLeast(r, c) == r.den > 0 /\ CutoffDen * r.num >= c * r.den

\* the test of the loop over rating_levels at (1-based) position lv
counts_toward(r, lv) ==
    IF lv = 1 THEN Below(r, rating_cutoffs[lv])
    ELSE IF lv = Len(rating_levels) THEN AtLeast(r, rating_cutoffs[lv - 1])
    ELSE AtLeast(r, rating_cutoffs[lv - 1]) /\ Below(r, rating_cutoffs[lv])

\* np.mean(mask) * n_simulations: the number of draws that pass the test
count_level(ratings, lv) ==
    Cardinality({j \in 1..Len(ratings) : counts_toward(ratings[j], lv)})

measure_at == measure_cols[col_k]

\* mutation: the row is looked up inside the loop, at the first draw
Start_in_loop ==
    /\ pc = "start"
    /\ draw_i' = 1
    /\ col_k' = 1
    /\ simulated_ratings' = [j \in 1..n_simulations |-> FracZero]
    /\ simulated_measures' =
           [m \in Measures \cap models |-> [j \in 1..n_simulations |-> 0]]
    /\ IF ~has_row
       THEN pc' = "raised" /\ raised' = "ValueError"
       ELSE pc' = "draw" /\ UNCHANGED raised
    /\ UNCHANGED <<sim_measures, sim_origin, rating_probs>>
    /\ UNCHANGED <<thresholds, measure_weights, callVars, simInputs>>

\* the lookup of the row of (contract_id, year), then the result arrays
Start ==
    /\ pc = "start"
    /\ IF ~has_row
       THEN /\ pc' = "raised"
            /\ raised' = "ValueError"
            /\ UNCHANGED <<draw_i, col_k, simulated_ratings, simulated_measures>>
       ELSE /\ pc' = "draw"
            /\ draw_i' = 1
            /\ col_k' = 1
            /\ simulated_ratings' = [j \in 1..n_simulations |-> FracZero]
            /\ simulated_measures' =
                   [m \in Measures \cap models |-> [j \in 1..n_simulations |-> 0]]
            /\ UNCHANGED raised
    /\ UNCHANGED <<sim_measures, sim_origin, rating_probs>>
    /\ UNCHANGED <<thresholds, measure_weights, callVars, simInputs>>

\* a measure without a model: the observed value, when there is one
UseActual ==
    /\ pc = "draw" /\ col_k <= Len(measure_cols)
    /\ measure_at \notin models
    /\ sim_measures' = use_actual(sim_measures, measure_at, contract_row)
    /\ sim_origin' = Put(sim_origin, measure_at,
                         [how |-> IF ~isna(contract_row[measure_at]) THEN "actual" ELSE "absent",
                          sample |-> NaN])
    /\ col_k' = col_k + 1
    /\ UNCHANGED <<pc, draw_i, simulated_ratings, simulated_measures, rating_probs, raised>>
    /\ UNCHANGED <<thresholds, measure_weights, callVars, simInputs>>

\* a modelled measure: one value d of the distribution is drawn
Sample(d) ==
    /\ pc = "draw" /\ col_k <= Len(measure_cols)
    /\ measure_at \in models
    /\ LET sampled_value == apply_adjustment(scale_sample(d), measure_at, adjustments)
       IN /\ sim_measures' = Put(sim_measures, measure_at, sampled_value)
          /\ simulated_measures' =
                 [simulated_measures EXCEPT ![measure_at][draw_i] = sampled_value]
    /\ sim_origin' = Put(sim_origin, measure_at, [how |-> "sampled", sample |-> d])
    /\ col_k' = col_k + 1
    /\ UNCHANGED <<pc, draw_i, simulated_ratings, rating_probs, raised>>
    /\ UNCHANGED <<thresholds, measure_weights, callVars, simInputs>>

\* mutation: the fallback value is adjusted and clipped like a sample
SampleFails_adjusted ==
    /\ pc = "draw" /\ col_k <= Len(measure_cols)
    /\ measure_at \in models
    /\ IF ~isna(contract_row[measure_at])
       THEN LET fallback == apply_adjustment(contract_row[measure_at], measure_at, adjustments)
            IN /\ sim_measures' = Put(sim_measures, measure_at, fallback)
               /\ simulated_measures' =
                      [simulated_measures EXCEPT ![measure_at][draw_i] = fallback]
               /\ sim_origin' = Put(sim_origin, measure_at,
                                    [how |-> "fallback", sample |-> NaN])
       ELSE /\ UNCHANGED <<sim_measures, simulated_measures>>
            /\ sim_origin' = Put(sim_origin, measure_at, [how |-> "failed", sample |-> NaN])
    /\ col_k' = col_k + 1
    /\ UNCHANGED <<pc, draw_i, simulated_ratings, rating_probs, raised>>
    /\ UNCHANGED <<thresholds, measure_weights, callVars, simInputs>>

\* mutation: the exception of the sampling is not caught
SampleFails_uncaught ==
    /\ pc = "draw" /\ col_k <= Len(measure_cols)
    /\ measure_at \in models
    /\ pc' = "raised"
    /\ raised' = "Exception"
    /\ UNCHANGED <<draw_i, col_k, sim_measures, sim_origin, simulated_ratings,
                   simulated_measures, rating_probs>>
    /\ UNCHANGED <<thresholds, measure_weights, callVars, simInputs>>

\* a modelled measure whose sampling raises: the except branch
SampleFails ==
    /\ pc = "draw" /\ col_k <= Len(measure_cols)
    /\ measure_at \in models
    /\ IF ~isna(contract_row[measure_at])
       THEN /\ sim_measures' = Put(sim_measures, measure_at, contract_row[measure_at])
            /\ simulated_measures' =
                   [simulated_measures EXCEPT ![measure_at][draw_i] = contract_row[measure_at]]
            /\ sim_origin' = Put(sim_origin, measure_at, [how |-> "fallback", sample |-> NaN])
       ELSE /\ UNCHANGED <<sim_measures, simulated_measures>>
            /\ sim_origin' = Put(sim_origin, measure_at, [how |-> "failed", sample |-> NaN])
    /\ col_k' = col_k + 1
    /\ UNCHANGED <<pc, draw_i, simulated_ratings, rating_probs, raised>>
    /\ UNCHANGED <<thresholds, measure_weights, callVars, simInputs>>

\* the end of a draw: the values are rated and the composite rating is stored
RateDraw ==
    /\ pc = "draw" /\ col_k > Len(measure_cols)
    /\ LET res == calculate_star_ratings(<<sim_measures>>, thresholds, measure_weights)
       IN IF res.exc # "none"
          THEN /\ pc' = "raised"
               /\ raised' = res.exc
               /\ UNCHANGED <<draw_i, col_k, sim_measures, sim_origin, simulated_ratings>>
          ELSE /\ simulated_ratings' =
                      [simulated_ratings EXCEPT ![draw_i] = res.weighted_avg[1]]
               /\ IF draw_i < n_simulations
                  THEN /\ draw_i' = draw_i + 1
                       /\ col_k' = 1
                       /\ sim_measures' = <<>>
                       /\ sim_origin' = <<>>
                       /\ pc' = "draw"
                  ELSE /\ pc' = "bin"
                       /\ UNCHANGED <<draw_i, col_k, sim_measures, sim_origin>>
               /\ UNCHANGED raised
    /\ UNCHANGED <<simulated_measures, rating_probs>>
    /\ UNCHANGED <<thresholds, measure_weights, callVars, simInputs>>

\* after the loop: the probability of each level, then return
Bin ==
    /\ pc = "bin"
    /\ rating_probs' = [lv \in 1..Len(rating_levels) |-> count_level(simulated_ratings, lv)]
    /\ pc' = "done"
    /\ UNCHANGED <<draw_i, col_k, sim_measures, sim_origin, simulated_ratings,
                   simulated_measures, raised>>
    /\ UNCHANGED <<thresholds, measure_weights, callVars, simInputs>>

SimSheets ==
    {Sheet(ColStd, ColOpen), Sheet(ColInv, ColOpen), Sheet(ColSkip, ColOpen),
     Sheet(ColStd, ColNone)}

ContractRows ==
    {[m \in Measures |-> IF m = "C: A" THEN a ELSE b] : a \in {NaN, 74, 105}, b \in {NaN, 97}}

AdjustmentConfigs ==
    { <<>>, [m \in {"C: A"} |-> 50], [m \in Measures |-> IF m = "C: A" THEN -70 ELSE 2] }

Init ==
    /\ thresholds \in {create_measure_thresholds(sheet) : sheet \in SimSheets}
    /\ measure_weights \in WeightConfigs
    /\ has_row \in BOOLEAN
    /\ contract_row \in IF has_row THEN ContractRows ELSE {<<>>}
    /\ models \in SUBSET Measures
    /\ adjustments \in AdjustmentConfigs
    /\ n_simulations \in 1..MaxSims
    /\ pc = "start"
    /\ draw_i = 0
    /\ col_k = 0
    /\ sim_measures = <<>>
    /\ sim_origin = <<>>
    /\ simulated_ratings = <<>>
    /\ simulated_measures = <<>>
    /\ rating_probs = <<>>
    /\ raised = "none"
    /\ measure_id = ""
    /\ score = NaN
    /\ gsr = PendingGsr
    /\ scores_df = <<>>
    /\ csr = PendingCsr
    /\ NoPathCall
    /\ NoValuation

Next ==
    \/ Start
    \/ UseActual
    \/ \E d \in Distribution : Sample(d)
    \/ SampleFails
    \/ RateDraw
    \/ Bin

Spec == Init /\ [][Next]_vars

-----------------------------------------------------------------------------
(* calculate_improvement_path and generate_improvement_report                *)
(*                                                                           *)
(* Ratings (current_weighted_avg, target_rating, the cumulative impact) are  *)
(* counted in thousandths of a star, the grain of round(3); distances are    *)
(* points and weights integers.  x / 0 on a numpy float is inf for x > 0 and *)
(* nan for x = 0; weight / total_weight on the weights of the dict raises    *)
(* ZeroDivisionError when total_weight is 0.                                 *)

\* star_ratings.columns
path_measures == <<"C: A", "C: B", "C: C">>
PathMeasures == {path_measures[k] : k \in 1..Len(path_measures)}

\* thousandths of a star in one star: the 3 of round(3)
Milli == 1000

\* p / q (q > 0) rounded to the nearest integer, halves to the even one
round_half_even(p, q) ==
    LET fl == p \div q
        rem == p % q
    IN IF 2 * rem < q THEN fl
       ELSE IF 2 * rem > q THEN fl + 1
       ELSE IF fl % 2 = 0 THEN fl ELSE fl + 1

\* abs(distance) / weight, rounded to 3 decimals, in thousandths of a point
distance_per_weight(distance, weight) ==
    IF Abs(distance) = PosInf THEN PosInf
    ELSE IF weight = 0 THEN (IF distance = 0 THEN NaN ELSE PosInf)
    ELSE round_half_even(Milli * Abs(distance), weight)

\* a < b on the unrounded Distance_per_Weight of two opportunities; nan last
dpw_less(a, b) ==
    LET cls(o) == IF Abs(o.Distance_to_Next) = PosInf THEN 1
                  ELSE IF o.Weight = 0 THEN (IF o.Distance_to_Next = 0 THEN 2 ELSE 1)
                  ELSE 0
    IN IF cls(a) # cls(b) THEN cls(a) < cls(b)
       ELSE cls(a) = 0 /\ Abs(a.Distance_to_Next) * b.Weight < Abs(b.Distance_to_Next) * a.Weight

\* the Distance_per_Weight of an opportunity is nan (0 / 0)
dpw_isna(o) == Abs(o.Distance_to_Next) # PosInf /\ o.Weight = 0 /\ o.Distance_to_Next = 0

\* mutation: the opportunities are left in column order
sort_values_none(opps) == {opps}

\* path_df.sort_values('Distance_per_Weight'): ascending, by quicksort, which
\* is not stable: the frames the call can return are the orders of the rows
\* with no row before one of a smaller key, in which the rows of key nan come
\* last in the order they had
sort_values(opps) ==
    LET n == Len(opps)
        ascending(p) ==
            \A a \in 1..n, b \in 1..n :
                a < b => /\ ~dpw_less(opps[p[b]], opps[p[a]])
                         /\ dpw_isna(opps[p[a]]) => dpw_isna(opps[p[b]]) /\ p[a] < p[b]
        orders == {p \in [1..n -> 1..n] :
                       (\A a \in 1..n, b \in 1..n : p[a] = p[b] => a = b) /\ ascending(p)}
    IN {[k \in 1..n |-> opps[p[k]]] : p \in orders}

\* the sum of the weights of the first k rows
RECURSIVE cumsum_weight(_, _)
cumsum_weight(rows, k) == IF k = 0 THEN 0 ELSE rows[k].Weight + cumsum_weight(rows, k - 1)

\* mutation: measures at 5 stars are eligible
skipped_keep5(star, distance) == isna(star) \/ isna(distance)

\* pd.isna(star) or star == 5 or pd.isna(distance)
skipped(star, distance) == isna(star) \/ star = 5 \/ isna(distance)

\* mutation: the measures at 5 stars are left out of the total weight
total_weight_below5(stars, weights) ==
    LET rated == {m \in DOMAIN stars : ~isna(stars[m]) /\ stars[m] # 5}
    IN SumOver(rated, [m \in rated |-> 1], weights)

\* sum([measure_weights[col] for col in current_stars.dropna().index])
total_weight_of(stars, weights) ==
    LET rated == {m \in DOMAIN stars : ~isna(stars[m])}
    IN SumOver(rated, [m \in rated |-> 1], weights)

\* (mask).idxmax() if any(mask) else None: the index LABEL of the first row
\* whose rounded cumulative impact is >= target_rating; None is -1
target_idx_of(rows, target) ==
    LET hits == {k \in 1..Len(rows) : rows[k].Cumulative_Rating_Impact >= target}
    IN IF hits = {} THEN -1 ELSE rows[Min(hits)].label

\* output_df.iloc[:target_idx + 1]: the first target_idx + 1 rows by POSITION
iloc_upto(rows, target_idx) ==
    SubSeq(rows, 1, IF target_idx + 1 < Len(rows) THEN target_idx + 1 ELSE Len(rows))

\* the outcomes of a call: one for every frame sort_values can return
calculate_improvement_path(stars, distances, weights, avg, target) ==
    LET raises(e) == [exc |-> e, empty |-> TRUE, rows |-> <<>>, target_idx |-> -1,
                      measures_needed |-> <<>>]
        rated == {m \in DOMAIN stars : ~isna(stars[m])}
        total_weight == total_weight_of(stars, weights)
        eligible == SelectSeq(path_measures,
                        LAMBDA m : /\ m \in DOMAIN stars
                                   /\ m \in DOMAIN weights
                                   /\ ~skipped(stars[m], distances[m]))
        opportunities ==
            [k \in 1..Len(eligible) |->
                [label |-> k - 1, Measure |-> eligible[k], Weight |-> weights[eligible[k]],
                 Distance_to_Next |-> distances[eligible[k]]]]
        output_df(path_df) ==
            [k \in 1..Len(path_df) |->
                [label |-> path_df[k].label,
                 Measure |-> path_df[k].Measure,
                 Weight |-> path_df[k].Weight,
                 Distance_to_Next |-> path_df[k].Distance_to_Next,
                 Distance_per_Weight |->
                     distance_per_weight(path_df[k].Distance_to_Next, path_df[k].Weight),
                 Cumulative_Weight |-> cumsum_weight(path_df, k),
                 Cumulative_Rating_Impact |->
                     round_half_even(avg * total_weight + Milli * cumsum_weight(path_df, k),
                                     total_weight)]]
        returns(rows) ==
            LET target_idx == target_idx_of(rows, target)
            IN [exc |-> "none", empty |-> FALSE, rows |-> rows, target_idx |-> target_idx,
                measures_needed |->
                    IF target_idx = -1 THEN <<>>
                    ELSE [k \in 1..Len(iloc_upto(rows, target_idx)) |-> rows[k].Measure]]
    IN IF \E m \in rated : m \notin DOMAIN weights THEN {raises("KeyError")}
       ELSE IF eligible = <<>>
            THEN {[exc |-> "none", empty |-> TRUE, rows |-> <<>>, target_idx |-> -1,
                   measures_needed |-> <<>>]}
       ELSE IF total_weight = 0 THEN {raises("ZeroDivisionError")}
       ELSE {returns(output_df(path_df)) : path_df \in sort_values(opportunities)}

\* the recommendations section of the report of a returned path
generate_improvement_report(path, current_rating, target) ==
    LET target_idx == target_idx_of(path.rows, target)
        measures_needed == iloc_upto(path.rows, target_idx)
        \* measures_needed.iloc[idx - 1] for the label idx > 0 of a listed row
        out_of_bounds ==
            \E k \in 1..Len(measures_needed) :
                measures_needed[k].label > 0 /\ measures_needed[k].label - 1 >= Len(measures_needed)
    IN IF path.empty THEN [exc |-> "ValueError", recommended |-> <<>>, note |-> FALSE]
       ELSE IF target_idx = -1 THEN [exc |-> "none", recommended |-> <<>>, note |-> TRUE]
       ELSE IF out_of_bounds THEN [exc |-> "IndexError", recommended |-> <<>>, note |-> FALSE]
       ELSE [exc |-> "none", note |-> FALSE,
             recommended |-> [k \in 1..Len(measures_needed) |-> measures_needed[k].Measure]]

\* (star, distance) of one measure as calculate_star_ratings reports them:
\* both undefined, 5 stars at distance 0, a level below 5 with the signed
\* distance to the next band (-inf: the next band is open below); and a rating
\* whose distance the caller left undefined
PathCells ==
    { <<NaN, NaN>>, <<5, 0>>, <<3, 11>>, <<2, 4>>, <<4, -2>>, <<4, NegInf>>, <<3, NaN>> }

PathWeightConfigs ==
    { [m \in PathMeasures |-> CASE m = "C: A" -> 1 [] m = "C: B" -> 3 [] OTHER -> 2],
      [m \in PathMeasures |-> CASE m = "C: A" -> 2 [] m = "C: B" -> 1 [] OTHER -> 1],
      [m \in {"C: A", "C: B"} |-> IF m = "C: A" THEN 1 ELSE 3],
      [m \in PathMeasures |-> IF m = "C: A" THEN 0 ELSE 1],
      [m \in PathMeasures |-> 0] }

CurrentRatings == {3000, 3250}
TargetRatings == {3500, 3667, 4000, 4500}

InitPath ==
    /\ thresholds = <<>>
    /\ measure_weights \in PathWeightConfigs
    /\ \E cells \in [PathMeasures -> PathCells] :
           /\ current_stars = [m \in PathMeasures |-> cells[m][1]]
           /\ current_distances = [m \in PathMeasures |-> cells[m][2]]
    /\ current_weighted_avg \in CurrentRatings
    /\ target_rating \in TargetRatings
    /\ improvement_path = NoPath
    /\ report = NoReport
    /\ measure_id = ""
    /\ score = NaN
    /\ gsr = PendingGsr
    /\ scores_df = <<>>
    /\ csr = PendingCsr
    /\ NoSimulation
    /\ NoValuation

\* main: the path of the first row
CalculatePath ==
    /\ improvement_path.exc = "pending"
    /\ improvement_path' \in
           calculate_improvement_path(current_stars, current_distances, measure_weights,
                                      current_weighted_avg, target_rating)
    /\ UNCHANGED <<current_stars, current_distances, current_weighted_avg, target_rating,
                   report>>
    /\ UNCHANGED <<thresholds, measure_weights, measure_id, score, gsr, scores_df, csr>>
    /\ UNCHANGED <<simInputs, simVars, valueVars, genVars>>

\* create_improvement_report: the report of the path that main returned
GenerateReport ==
    /\ improvement_path.exc = "none"
    /\ report.exc = "pending"
    /\ report' = generate_improvement_report(improvement_path, current_weighted_avg,
                                             target_rating)
    /\ UNCHANGED <<current_stars, current_distances, current_weighted_avg, target_rating,
                   improvement_path>>
    /\ UNCHANGED <<thresholds, measure_weights, measure_id, score, gsr, scores_df, csr>>
    /\ UNCHANGED <<simInputs, simVars, valueVars, genVars>>

NextPath == CalculatePath \/ GenerateReport

SpecPath == InitPath /\ [][NextPath]_vars

-----------------------------------------------------------------------------
(* evaluate_measure_improvement_value                                        *)
(*                                                                           *)
(* The module measureImprovmentValuation has no import statement and binds   *)
(* one name, the function itself.  The function's first statement calls      *)
(* run_monte_carlo_simulation, a name looked up among the module's globals   *)
(* when the statement runs.  analyzeImprovmentStrategies imports the         *)
(* function, which keeps the globals of the module it was defined in.        *)

\* the global names of the module measureImprovmentValuation
module_globals == {"evaluate_measure_improvement_value"}

\* line 22: the lookup of the global name fails and NameError leaves the
\* function; lines 23-64 are not reached
evaluate_measure_improvement_value(improvements, values, n) ==
    CASE "run_monte_carlo_simulation" \notin module_globals -> [exc |-> "NameError"]

StarValueTables ==
    { (3 :> 100) @@ (4 :> 200),
      [lv \in 1..5 |-> CASE lv = 3 -> 100 [] lv = 4 -> 200 [] lv = 5 -> 400 [] OTHER -> 0],
      <<>> }

\* the arguments of a call; adjustments holds the argument improvements
InitValue ==
    /\ thresholds = create_measure_thresholds(Sheet(ColStd, ColOpen))
    /\ measure_weights \in WeightConfigs
    /\ has_row = TRUE
    /\ contract_row \in ContractRows
    /\ models \in SUBSET Measures
    /\ adjustments \in AdjustmentConfigs
    /\ n_simulations \in 1..MaxSims
    /\ star_values \in StarValueTables
    /\ valuation = NoValue
    /\ rng_state = 0
    /\ run_starts = <<>>
    /\ returned = <<>>
    /\ pc = "idle"
    /\ draw_i = 0
    /\ col_k = 0
    /\ sim_measures = <<>>
    /\ sim_origin = <<>>
    /\ simulated_ratings = <<>>
    /\ simulated_measures = <<>>
    /\ rating_probs = <<>>
    /\ raised = "none"
    /\ measure_id = ""
    /\ score = NaN
    /\ gsr = PendingGsr
    /\ scores_df = <<>>
    /\ csr = PendingCsr
    /\ NoPathCall

\* one call of evaluate_measure_improvement_value: no simulation is started,
\* the generator is not read
Evaluate ==
    /\ valuation.exc = "pending"
    /\ valuation' = evaluate_measure_improvement_value(adjustments, star_values, n_simulations)
    /\ UNCHANGED star_values
    /\ UNCHANGED <<thresholds, measure_weights, measure_id, score, gsr, scores_df, csr>>
    /\ UNCHANGED <<simInputs, simVars, pathVars, genVars>>

NextValue == Evaluate

SpecValue == InitValue /\ [][NextValue]_vars

-----------------------------------------------------------------------------
(* Two calls of run_monte_carlo_simulation in one process                    *)
(*                                                                           *)
(* np.random is one generator for the whole process: randint reads its state *)
(* and advances it, and nothing in the repository seeds it.  The generator   *)
(* is a function of its state (here a congruential generator of full period  *)
(* in place of the Mersenne Twister).  A client calls the simulation twice   *)
(* on the same arguments, without adjustments; the process may be in any     *)
(* generator state when the first call begins.  Sampling never fails in      *)
(* these runs.                                                               *)

RngModulus == 16
RngMultiplier == 5
RngIncrement == 3

\* the state after one number was taken
rng_next(state) == (RngMultiplier * state + RngIncrement) % RngModulus

\* np.random.randint(0, len(distribution)) in the state given (0-based)
randint(state, len) == (state \div 4) % len

\* distribution[sample_idx]
RECURSIVE distribution_at(_, _)
distribution_at(dist, idx) ==
    IF idx = 0 THEN Min(dist) ELSE distribution_at(dist \ {Min(dist)}, idx - 1)

\* the loop over measure_cols of draw i, from column c on; acc holds
\* sim_measures, sim_origin, simulated_measures and the generator state
RECURSIVE seeded_draw(_, _, _, _, _, _)
seeded_draw(c, i, acc, row, mods, adj) ==
    IF c > Len(measure_cols) THEN acc
    ELSE LET m == measure_cols[c]
         IN IF m \notin mods
            THEN seeded_draw(c + 1, i,
                     [acc EXCEPT !.sim_measures = use_actual(@, m, row),
                                 !.sim_origin =
                                     Put(@, m, [how |-> IF ~isna(row[m]) THEN "actual"
                                                        ELSE "absent",
                                                sample |-> NaN])],
                     row, mods, adj)
            ELSE LET sample_idx == randint(acc.state, Cardinality(Distribution))
                     d == distribution_at(Distribution, sample_idx)
                     sampled_value == apply_adjustment(scale_sample(d), m, adj)
                 IN seeded_draw(c + 1, i,
                        [sim_measures |-> Put(acc.sim_measures, m, sampled_value),
                         sim_origin |-> Put(acc.sim_origin, m,
                                            [how |-> "sampled", sample |-> d]),
                         simulated_measures |->
                             [acc.simulated_measures EXCEPT ![m][i] = sampled_value],
                         state |-> rng_next(acc.state)],
                        row, mods, adj)

\* np.mean(simulated_ratings) as a fraction; nan if a rating is nan
RECURSIVE sum_ratings(_)
sum_ratings(ratings) ==
    IF ratings = <<>> THEN FracZero
    ELSE LET h == Head(ratings)
             t == sum_ratings(Tail(ratings))
         IN [num |-> h.num * t.den + t.num * h.den, den |-> h.den * t.den]

expected_rating_of(ratings) ==
    [num |-> sum_ratings(ratings).num, den |-> sum_ratings(ratings).den * Len(ratings)]

\* one whole draw: the values of the measures, their rating, the stored average
SeededDraw ==
    /\ pc = "draw"
    /\ LET drawn == seeded_draw(1, draw_i,
                                [sim_measures |-> <<>>, sim_origin |-> <<>>,
                                 simulated_measures |-> simulated_measures,
                                 state |-> rng_state],
                                contract_row, models, adjustments)
           res == calculate_star_ratings(<<drawn.sim_measures>>, thresholds, measure_weights)
       IN /\ sim_measures' = drawn.sim_measures
          /\ sim_origin' = drawn.sim_origin
          /\ simulated_measures' = drawn.simulated_measures
          /\ rng_state' = drawn.state
          /\ col_k' = Len(measure_cols) + 1
          /\ IF res.exc # "none"
             THEN /\ pc' = "raised"
                  /\ raised' = res.exc
                  /\ UNCHANGED <<draw_i, simulated_ratings>>
             ELSE /\ simulated_ratings' =
                         [simulated_ratings EXCEPT ![draw_i] = res.weighted_avg[1]]
                  /\ IF draw_i < n_simulations
                     THEN draw_i' = draw_i + 1 /\ pc' = "draw"
                     ELSE draw_i' = draw_i /\ pc' = "bin"
                  /\ UNCHANGED raised
    /\ UNCHANGED <<rating_probs, run_starts, returned>>
    /\ UNCHANGED <<thresholds, measure_weights, simInputs, valueVars, pathVars>>
    /\ UNCHANGED <<measure_id, score, gsr, scores_df, csr>>

\* the binning and the return of a call
SeededReturn ==
    /\ pc = "bin"
    /\ rating_probs' = [lv \in 1..Len(rating_levels) |-> count_level(simulated_ratings, lv)]
    /\ returned' = Append(returned,
                          [simulated_ratings |-> simulated_ratings,
                           simulated_measures |-> simulated_measures,
                           rating_probabilities |-> rating_probs',
                           expected_rating |-> expected_rating_of(simulated_ratings)])
    /\ pc' = IF returned = <<>> THEN "between" ELSE "done"
    /\ UNCHANGED <<draw_i, col_k, sim_measures, sim_origin, simulated_ratings,
                   simulated_measures, raised, rng_state, run_starts, valueVars>>
    /\ UNCHANGED <<thresholds, measure_weights, simInputs, pathVars>>
    /\ UNCHANGED <<measure_id, score, gsr, scores_df, csr>>

\* the second call, on the same arguments: new locals up to the loop, and the
\* generator in the state the process is in
SecondCall ==
    /\ pc = "between"
    /\ pc' = "draw"
    /\ draw_i' = 1
    /\ col_k' = 1
    /\ sim_measures' = <<>>
    /\ sim_origin' = <<>>
    /\ simulated_ratings' = [j \in 1..n_simulations |-> FracZero]
    /\ simulated_measures' =
           [m \in Measures \cap models |-> [j \in 1..n_simulations |-> 0]]
    /\ rating_probs' = <<>>
    /\ run_starts' = Append(run_starts, rng_state)
    /\ UNCHANGED <<rng_state, returned, raised>>
    /\ UNCHANGED <<thresholds, measure_weights, simInputs, valueVars, pathVars>>
    /\ UNCHANGED <<measure_id, score, gsr, scores_df, csr>>

Seeds == 0..(RngModulus - 1)

\* the first call at the head of its loop over the draws
InitSeeded ==
    /\ thresholds = create_measure_thresholds(Sheet(ColStd, ColOpen))
    /\ measure_weights \in WeightConfigs
    /\ has_row = TRUE
    /\ contract_row \in ContractRows
    /\ models \in SUBSET Measures
    /\ adjustments = <<>>
    /\ n_simulations \in 1..MaxSims
    /\ rng_state \in Seeds
    /\ run_starts = <<rng_state>>
    /\ returned = <<>>
    /\ pc = "draw"
    /\ draw_i = 1
    /\ col_k = 1
    /\ sim_measures = <<>>
    /\ sim_origin = <<>>
    /\ simulated_ratings = [j \in 1..n_simulations |-> FracZero]
    /\ simulated_measures = [m \in Measures \cap models |-> [j \in 1..n_simulations |-> 0]]
    /\ rating_probs = <<>>
    /\ raised = "none"
    /\ star_values = <<>>
    /\ valuation = NoValue
    /\ measure_id = ""
    /\ score = NaN
    /\ gsr = PendingGsr
    /\ scores_df = <<>>
    /\ csr = PendingCsr
    /\ NoPathCall

NextSeeded == SeededDraw \/ SeededReturn \/ SecondCall

SpecSeeded == InitSeeded /\ [][NextSeeded]_vars

-----------------------------------------------------------------------------
(* Properties of get_star_rating (SpecClassify) *)

\* the bands of the spec's example
ExampleBands == <<<<0, 55, 1>>, <<55, 70, 2>>, <<70, 85, 3>>, <<85, 95, 4>>, <<95, 101, 5>>>>

\* the call is on a measure that has a threshold table
Classified == gsr.exc # "pending" /\ measure_id \in DOMAIN thresholds

\* positions of the bands whose half-open interval [lower, upper) holds the score
Containing ==
    {b \in 1..Len(thresholds[measure_id]) :
        thresholds[measure_id][b][1] <= score /\ score < thresholds[measure_id][b][2]}

TopStar ==
    CHOOSE t \in {thresholds[measure_id][b][3] : b \in 1..Len(thresholds[measure_id])} :
        \A b \in 1..Len(thresholds[measure_id]) : thresholds[measure_id][b][3] <= t

TopLower ==
    (CHOOSE band \in {thresholds[measure_id][b] : b \in 1..Len(thresholds[measure_id])} :
        band[3] = TopStar)[1]

\* the level a returning call may give: that of the first (lowest-level) band
\* whose half-open interval [lower, upper) contains the score, or, when no band
\* contains it, the top level under the rescue rule
LevelOfContainingBand ==
    LET bands == thresholds[measure_id]
    IN /\ \A a, b \in 1..Len(bands) : a < b => bands[a][3] < bands[b][3]
       /\ gsr.star \in 1..5
       /\ Containing # {} =>
              /\ \E b \in Containing : bands[b][3] = gsr.star
              /\ \A b \in Containing : bands[b][3] >= gsr.star
       /\ Containing = {} => (gsr.star = TopStar /\ score >= TopLower)
       /\ (bands = ExampleBands /\ score = 74) => gsr.star = 3

\* C3 as claimed: for every measure with a threshold table and every score,
\* the call returns exactly one level, that of a band (scanned in ascending
\* level order) whose half-open interval contains the score, or the top level
\* under the rescue rule.
C3_AlwaysReturnsLevelOfBand ==
    Classified => (gsr.exc = "none" /\ LevelOfContainingBand)

\* C3 amended: for every measure with a threshold table and every score, the
\* call either returns exactly one level, that of the first band in ascending
\* level order whose half-open interval contains the score, or the top level
\* under the rescue rule, or it raises ValueError, which it does only when no
\* band contains the score and the score is below the lower bound of the top
\* band; the example bands with score 74 give level 3.
C3_ReturnsLevelOfBandOrRaises ==
    Classified =>
        \/ gsr.exc = "none" /\ LevelOfContainingBand
        \/ gsr.exc = "ValueError" /\ Containing = {} /\ score < TopLower

C3_Witness ==
    /\ Classified /\ gsr.exc = "none"
    /\ thresholds[measure_id] = ExampleBands /\ score = 74 /\ gsr.star = 3

\* C4: when no band's half-open interval contains the score, the call returns
\* the highest level of the table if the score is >= the lower bound of the
\* highest-level band, and otherwise fails with ValueError; no other outcome.
C4_NoBandRescueOrError ==
    (Classified /\ Containing = {}) =>
        IF score >= TopLower
        THEN gsr.exc = "none" /\ gsr.star = TopStar
        ELSE gsr.exc = "ValueError"

\* the rescue rule has acted: the score equals the lower bound of a top band
\* that no score can lie in
C4_Witness ==
    /\ Classified /\ Containing = {}
    /\ score = TopLower /\ gsr.exc = "none" /\ gsr.star = TopStar

\* the error path of C4 is reached as well
C4_ErrorReached == Classified /\ Containing = {} /\ gsr.exc = "ValueError"

-----------------------------------------------------------------------------
(* Properties of calculate_star_ratings (SpecStars) *)

Returned == csr.exc = "none"

RowIds == 1..Len(scores_df)

\* the measures that get a column of star_ratings
Rated == {m \in Columns(scores_df) : m \in DOMAIN measure_weights}

BandsOf(m) == {thresholds[m][b] : b \in 1..Len(thresholds[m])}

\* lower bound of the band of a level
LowerOf(m, level) == (CHOOSE band \in BandsOf(m) : band[3] = level)[1]

AbsGap(s, lo) ==
    IF lo = NegInf \/ lo = PosInf THEN PosInf ELSE IF s > lo THEN s - lo ELSE lo - s

SignedGap(s, lo) ==
    IF lo = NegInf THEN NegInf ELSE IF lo = PosInf THEN PosInf ELSE lo - s

\* C5 as claimed: the distance of a classified score is the absolute gap
\* between the score and the lower bound of the next-higher level's band for
\* levels 1 to 4, and 0 for level 5.
C5_DistanceIsAbsoluteGap ==
    Returned =>
        \A r \in RowIds, m \in Rated :
            LET star == csr.star_ratings[r][m]
            IN ~isna(star) =>
                   csr.distances[r][m] =
                       IF star < 5 THEN AbsGap(scores_df[r][m], LowerOf(m, star + 1)) ELSE 0

\* C5 amended: whenever the call returns, the distance of a classified score
\* is the signed difference
\* (lower bound of the next-higher level's band) - score for levels 1 to 4,
\* negative when the score lies above that bound, and 0 for level 5; the
\* example bands with score 74 give distance 85 - 74 = 11.
C5_DistanceIsSignedGap ==
    Returned =>
        \A r \in RowIds, m \in Rated :
            LET star == csr.star_ratings[r][m]
            IN ~isna(star) =>
                   /\ csr.distances[r][m] =
                          IF star < 5 THEN SignedGap(scores_df[r][m], LowerOf(m, star + 1))
                          ELSE 0
                   /\ (thresholds[m] = ExampleBands /\ scores_df[r][m] = 74) =>
                          csr.distances[r][m] = 11

\* a score above the next band's lower bound has been rated below level 5
C5_Witness ==
    /\ Returned
    /\ \E r \in RowIds, m \in Rated :
           /\ csr.star_ratings[r][m] \in 1..4
           /\ LowerOf(m, csr.star_ratings[r][m] + 1) # NegInf
           /\ scores_df[r][m] > LowerOf(m, csr.star_ratings[r][m] + 1)
           /\ csr.distances[r][m] < 0

\* the score is missing, the measure has no table, or no band and no rescue
Undefinable(r, m) ==
    \/ isna(scores_df[r][m])
    \/ m \notin DOMAIN thresholds
    \/ /\ \A band \in BandsOf(m) : ~(band[1] <= scores_df[r][m] /\ scores_df[r][m] < band[2])
       /\ \A band \in BandsOf(m) :
              (\A other \in BandsOf(m) : other[3] <= band[3]) => scores_df[r][m] < band[1]

DropColumn(df, m) == [r \in 1..Len(df) |-> [c \in DOMAIN df[r] \ {m} |-> df[r][c]]]

\* C6: a score that is missing, of a measure without threshold table, or in
\* no band gets an undefined rating and an undefined distance; no exception
\* leaves the function at such a score; and the outcome for the other measures
\* (exception or ratings and distances of every row) is that of the call
\* without the measure.
C6_UndefinedScoresAreIsolated ==
    csr.exc # "pending" =>
        /\ Returned =>
               \A r \in RowIds, m \in Rated :
                   Undefinable(r, m) =>
                       isna(csr.star_ratings[r][m]) /\ isna(csr.distances[r][m])
        /\ ~Returned => ~Undefinable(csr.at[2], csr.at[1])
        /\ \A m \in Rated :
               (\A r \in RowIds : Undefinable(r, m)) =>
                   LET without ==
                           calculate_star_ratings(DropColumn(scores_df, m), thresholds,
                                                  measure_weights)
                   IN /\ without.exc = csr.exc
                      /\ Returned =>
                             \A r \in RowIds, o \in Rated \ {m} :
                                 /\ without.star_ratings[r][o] = csr.star_ratings[r][o]
                                 /\ without.distances[r][o] = csr.distances[r][o]

\* one row holds a score in no band next to a rated measure, another row a
\* missing score
C6_Witness ==
    /\ Returned
    /\ \E r \in RowIds, m \in Rated, o \in Rated :
           /\ ~isna(scores_df[r][m]) /\ m \in DOMAIN thresholds /\ Undefinable(r, m)
           /\ isna(csr.star_ratings[r][m])
           /\ ~isna(csr.star_ratings[r][o])
    /\ \E r \in RowIds, m \in Rated : isna(scores_df[r][m])

RECURSIVE Total(_, _)
Total(S, f) ==
    IF S = {} THEN 0
    ELSE LET x == CHOOSE y \in S : TRUE IN f[x] + Total(S \ {x}, f)

\* C7: the weighted average of a row is sum(rating * weight) / sum(weight)
\* over exactly the measures with a defined rating and a weight, and nan when
\* that total weight is 0; weights {A: 1, B: 3} with ratings {A: 3, B: 5}
\* give 4.5.
C7_WeightedAverage ==
    Returned =>
        \A r \in RowIds :
            LET stars == csr.star_ratings[r]
                inc == {m \in Measures : /\ m \in DOMAIN measure_weights
                                         /\ m \in DOMAIN stars
                                         /\ ~isna(stars[m])}
                ts == Total(inc, [m \in inc |-> stars[m] * measure_weights[m]])
                tw == Total(inc, [m \in inc |-> measure_weights[m]])
                avg == csr.weighted_avg[r]
            IN /\ IF tw = 0 THEN avg.den = 0
                  ELSE avg.den > 0 /\ avg.num * tw = ts * avg.den
               /\ ( /\ DOMAIN measure_weights = Measures
                    /\ measure_weights["C: A"] = 1 /\ measure_weights["C: B"] = 3
                    /\ stars["C: A"] = 3 /\ stars["C: B"] = 5 )
                      => (avg.den > 0 /\ 2 * avg.num = 9 * avg.den)

\* the example of C7, and a row whose included weight is 0 next to rated measures
C7_Witness ==
    /\ Returned
    /\ DOMAIN measure_weights = Measures
    /\ measure_weights["C: A"] = 1 /\ measure_weights["C: B"] = 3
    /\ csr.star_ratings[1]["C: A"] = 3 /\ csr.star_ratings[1]["C: B"] = 5
    /\ 2 * csr.weighted_avg[1].num = 9 * csr.weighted_avg[1].den

\* an average is nan although measures are rated: every included weight is 0
C7_ZeroWeightReached ==
    /\ Returned
    /\ \E r \in RowIds :
           /\ csr.weighted_avg[r].den = 0
           /\ \E m \in Rated : ~isna(csr.star_ratings[r][m])

\* the score of row r is classified below level 5 and the table of the
\* measure has no band of the next level (a band was skipped)
NextBandMissing(r, m) ==
    /\ ~isna(scores_df[r][m]) /\ m \in DOMAIN thresholds
    /\ LET g == get_star_rating(m, scores_df[r][m], thresholds)
       IN /\ g.exc = "none" /\ g.star < 5
          /\ \A band \in BandsOf(m) : band[3] # g.star + 1

\* C20 as claimed: no exception leaves calculate_star_ratings for a table from
\* which a band was skipped: a score classified at level k < 5 whose table has
\* no band of level k + 1 gets an undefined rating and distance for the row,
\* and the computation continues.
C20_SkippedBandIsNotFatal ==
    csr.exc # "pending" =>
        /\ Returned
        /\ \A r \in RowIds, m \in Rated :
               NextBandMissing(r, m) =>
                   isna(csr.star_ratings[r][m]) /\ isna(csr.distances[r][m])

\* what holds of the code: IndexError leaves the function exactly when some
\* score is classified below level 5 and the next level has no band, and no
\* other exception leaves it
C20_MissingNextBandRaises ==
    csr.exc # "pending" =>
        /\ csr.exc \in {"none", "IndexError"}
        /\ csr.exc = "IndexError" <=> \E r \in RowIds, m \in Rated : NextBandMissing(r, m)

\* the call on a table with a skipped band raised IndexError
C20_IndexErrorReached ==
    /\ csr.exc = "IndexError"
    /\ \E r \in RowIds, m \in Rated :
           NextBandMissing(r, m) /\ csr.at = <<m, r>> /\ Len(thresholds[m]) = 4

\* a simulation was aborted by the IndexError of the rating of a draw
C20_SimulationAborted ==
    pc = "raised" /\ raised = "IndexError" /\ draw_i >= 1

-----------------------------------------------------------------------------
(* Properties of run_monte_carlo_simulation (Spec) *)

\* the measures the current draw has gone through
Visited == {measure_cols[c] : c \in 1..(IF col_k = 0 THEN 0 ELSE col_k - 1)}

InDraws == pc \in {"draw", "bin", "done"}

RECURSIVE SumSeq(_)
SumSeq(q) == IF q = <<>> THEN 0 ELSE Head(q) + SumSeq(Tail(q))

\* number of draws whose composite rating r satisfies lo <= 4r < hi (nan: none)
DrawsIn(lo, hi) ==
    Cardinality({j \in 1..Len(simulated_ratings) :
        /\ simulated_ratings[j].den > 0
        /\ lo * simulated_ratings[j].den <= 4 * simulated_ratings[j].num
        /\ 4 * simulated_ratings[j].num < hi * simulated_ratings[j].den})

\* C1 as claimed: with the cutoffs 1.75, 2.75, 3.25, 3.75, 4.25, 4.75 (here
\* times 4), level 1 counts exactly the draws r < 1.75, level 5 exactly the
\* draws r >= 4.75, and every interior level exactly the draws of one half-open
\* bin between two successive cutoffs.
C1_BinningByCutoffs ==
    pc = "done" =>
        /\ rating_probs[1] = DrawsIn(NegInf, 7)
        /\ rating_probs[5] = DrawsIn(19, PosInf)
        /\ \A lv \in 2..4 :
               \E c \in {<<7, 11>>, <<11, 13>>, <<13, 15>>, <<15, 17>>, <<17, 19>>} :
                   rating_probs[lv] = DrawsIn(c[1], c[2])

\* C2 as claimed: the five reported probabilities sum to 1, that is, the
\* draws counted toward the five levels are n_simulations in number.
C2_ProbabilitiesSumToOne ==
    pc = "done" => SumSeq(rating_probs) = n_simulations

\* C8 as claimed: in every draw, for every measure that has a fitted model
\* and is named in adjustments, the value that is classified is
\* clip(sample * 100 + adjustment, 0, 100), and so lies in 0..100.
C8_ClassifiedValueIsClipped ==
    \A m \in DOMAIN sim_origin :
        (m \in models /\ m \in DOMAIN adjustments) =>
            /\ m \in DOMAIN sim_measures
            /\ sim_measures[m] >= 0 /\ sim_measures[m] <= 100
            /\ sim_origin[m].how = "sampled"
            /\ LET raw == (sim_origin[m].sample * 100) \div SampleDen + adjustments[m]
               IN sim_measures[m] = IF raw > 100 THEN 100 ELSE IF raw < 0 THEN 0 ELSE raw

\* C8, amended: in every draw, for every measure that has a fitted model and
\* is named in adjustments, the value that is classified is
\* clip(sample * 100 + adjustment, 0, 100), and so lies in 0..100, whenever the
\* sampling succeeds; when the sampling raises, the value classified is the
\* observed value of the row as it is, and the measure is left out of the draw
\* when that value is missing.
C8_AdjustedSampleIsClipped ==
    \A m \in DOMAIN sim_origin :
        (m \in models /\ m \in DOMAIN adjustments) =>
            /\ sim_origin[m].how \in {"sampled", "fallback", "failed"}
            /\ sim_origin[m].how = "sampled" =>
                   LET raw == (sim_origin[m].sample * 100) \div SampleDen + adjustments[m]
                   IN /\ m \in DOMAIN sim_measures
                      /\ sim_measures[m] =
                             IF raw > 100 THEN 100 ELSE IF raw < 0 THEN 0 ELSE raw
                      /\ sim_measures[m] >= 0 /\ sim_measures[m] <= 100
            /\ sim_origin[m].how = "fallback" =>
                   /\ ~isna(contract_row[m])
                   /\ m \in DOMAIN sim_measures /\ sim_measures[m] = contract_row[m]
            /\ sim_origin[m].how = "failed" =>
                   isna(contract_row[m]) /\ m \notin DOMAIN sim_measures

\* the sampling of a modelled measure named in adjustments raised, and the
\* draw was rated on its observed value, above 100
C8_UnclippedFallbackReached ==
    /\ pc = "done"
    /\ \E m \in DOMAIN sim_origin :
           /\ m \in models /\ m \in DOMAIN adjustments
           /\ sim_origin[m].how = "fallback"
           /\ sim_measures[m] > 100

\* a draw was rated whose samples were clipped at 0 (negative adjustment) and
\* left as they were (small positive adjustment)
C8_Witness ==
    /\ pc = "done"
    /\ DOMAIN adjustments = Measures /\ adjustments["C: A"] < 0 /\ adjustments["C: B"] > 0
    /\ DOMAIN sim_origin = Measures
    /\ sim_origin["C: A"].how = "sampled" /\ sim_origin["C: B"].how = "sampled"
    /\ (sim_origin["C: A"].sample * 100) \div SampleDen + adjustments["C: A"] < 0
    /\ sim_measures["C: A"] = 0
    /\ sim_measures["C: B"] = (sim_origin["C: B"].sample * 100) \div SampleDen + adjustments["C: B"]

\* a sample was clipped at 100 by a positive adjustment
C8_UpperClipReached ==
    \E m \in DOMAIN sim_origin :
        /\ sim_origin[m].how = "sampled" /\ m \in DOMAIN adjustments
        /\ (sim_origin[m].sample * 100) \div SampleDen + adjustments[m] > 100
        /\ sim_measures[m] = 100

\* C9: in every draw a measure without model enters the draw with the row's
\* observed value when that is present and is absent from the draw when it is
\* missing.
C9_UnmodelledUsesActual ==
    InDraws =>
        \A m \in Visited \ models :
            IF isna(contract_row[m]) THEN m \notin DOMAIN sim_measures
            ELSE m \in DOMAIN sim_measures /\ sim_measures[m] = contract_row[m]

\* a rated draw with one unmodelled measure observed and one missing
C9_Witness ==
    /\ pc = "done" /\ models = {}
    /\ ~isna(contract_row["C: A"]) /\ sim_measures["C: A"] = contract_row["C: A"]
    /\ isna(contract_row["C: B"]) /\ "C: B" \notin DOMAIN sim_measures

\* C10: a failed sampling is caught in its draw: the measure enters the draw
\* with the observed value (or not at all when that is missing), no exception
\* leaves the function from the loop over the measures, every measure of the
\* draw is gone through, and a simulation that returns has made all
\* n_simulations draws.
C10_SamplingFailureIsLocal ==
    /\ \A m \in DOMAIN sim_origin :
           /\ sim_origin[m].how = "fallback" =>
                  /\ ~isna(contract_row[m])
                  /\ m \in DOMAIN sim_measures /\ sim_measures[m] = contract_row[m]
           /\ sim_origin[m].how = "failed" =>
                  isna(contract_row[m]) /\ m \notin DOMAIN sim_measures
    /\ pc = "raised" => (draw_i = 0 \/ col_k > Len(measure_cols))
    /\ InDraws => DOMAIN sim_origin = Visited
    /\ pc = "done" =>
           /\ draw_i = n_simulations /\ col_k > Len(measure_cols)
           /\ Len(simulated_ratings) = n_simulations
           /\ DOMAIN rating_probs = 1..5

\* a simulation returned after the sampling of the first measure of its last
\* draw failed and the second measure was sampled
C10_Witness ==
    /\ pc = "done"
    /\ DOMAIN sim_origin = Measures
    /\ sim_origin["C: A"].how = "fallback" /\ sim_measures["C: A"] = contract_row["C: A"]
    /\ sim_origin["C: B"].how = "sampled"

\* C11: the simulation fails with the error of the missing row (ValueError
\* "No data found for contract ... in year ...") exactly when no row matches
\* (contract_id, year); the error is raised at the lookup before the first
\* draw: no draw was begun, no value sampled or taken over, no rating stored,
\* and no later step raises it.
C11_MissingRowFailsBeforeDraws ==
    /\ (pc # "start" /\ ~has_row) => (pc = "raised" /\ raised = "ValueError")
    /\ raised = "ValueError" =>
           /\ ~has_row /\ pc = "raised"
           /\ draw_i = 0 /\ col_k = 0
           /\ sim_measures = <<>> /\ sim_origin = <<>>
           /\ simulated_ratings = <<>> /\ simulated_measures = <<>>
           /\ rating_probs = <<>>
    /\ (has_row /\ pc # "start") => draw_i >= 1

\* the lookup found no row and the error left the function
C11_Witness ==
    /\ ~has_row /\ pc = "raised" /\ raised = "ValueError" /\ draw_i = 0
    /\ models # {}

\* C21: a value taken over from the row (the measure has no model, or its
\* sampling failed) enters the draw, and so the rating, as the observed value
\* itself, neither adjusted nor clipped, whether or not adjustments names the
\* measure; only sampled values are adjusted.
C21_ActualValuesAreNotAdjusted ==
    \A m \in DOMAIN sim_origin :
        /\ sim_origin[m].how \in {"actual", "fallback"} =>
               /\ m \in DOMAIN sim_measures
               /\ sim_measures[m] = contract_row[m]
        /\ sim_origin[m].how = "actual" => m \notin models
        /\ sim_origin[m].how = "fallback" =>
               m \in models /\ simulated_measures[m][draw_i] = contract_row[m]
        /\ (sim_origin[m].how = "sampled" /\ m \notin DOMAIN adjustments) =>
               sim_measures[m] = (sim_origin[m].sample * 100) \div SampleDen

\* a simulation returned whose last draw took over 105 for a measure whose
\* sampling failed and 97 for a measure without model, both named by
\* adjustments that would have changed them
C21_Witness ==
    /\ pc = "done"
    /\ DOMAIN adjustments = Measures /\ DOMAIN sim_origin = Measures
    /\ sim_origin["C: A"].how = "fallback" /\ sim_origin["C: B"].how = "actual"
    /\ contract_row["C: A"] > 100 /\ sim_measures["C: A"] = contract_row["C: A"]
    /\ sim_measures["C: B"] = contract_row["C: B"]
    /\ clip(contract_row["C: A"] + adjustments["C: A"]) # contract_row["C: A"]
    /\ clip(contract_row["C: B"] + adjustments["C: B"]) # contract_row["C: B"]

\* C22 as claimed: for every modelled measure the current draw has gone
\* through, the value recorded in simulated_measures for the draw is the value
\* of the measure that enters the rating of the draw; a draw to which the
\* measure contributes nothing is not recorded as the number 0.
C22_RecordedDrawIsClassifiedValue ==
    InDraws =>
        \A m \in Visited \cap models :
            IF m \in DOMAIN sim_measures
            THEN simulated_measures[m][draw_i] = sim_measures[m]
            ELSE simulated_measures[m][draw_i] # 0

\* what holds of the code: a sampled or taken-over value is recorded as it is
\* rated, and the entry of a draw to which the measure contributes nothing
\* keeps the 0 the array was created with
C22_FailedDrawKeepsZero ==
    InDraws =>
        \A m \in Visited \cap models :
            IF m \in DOMAIN sim_measures
            THEN simulated_measures[m][draw_i] = sim_measures[m]
            ELSE sim_origin[m].how = "failed" /\ simulated_measures[m][draw_i] = 0

\* a simulation returned with a 0 recorded for a draw in which the sampling
\* of the measure failed and the row holds no value of it
C22_ZeroRecordedReached ==
    /\ pc = "done"
    /\ \E m \in models :
           /\ sim_origin[m].how = "failed" /\ m \notin DOMAIN sim_measures
           /\ simulated_measures[m][draw_i] = 0

\* the draws completed so far, while the loop over the draws is running
CompletedDraws == draw_i - 1

\* C17 as claimed: at any point of the loop after k >= 1 completed draws the
\* simulation can be stopped: a step is possible that leaves the loop over the
\* draws (toward the binning and the return) with the k completed draws.
C17_CanStopAfterAnyDraw ==
    (pc = "draw" /\ CompletedDraws >= 1) =>
        ENABLED (Next /\ pc' \in {"bin", "done"} /\ draw_i' = CompletedDraws)

\* what holds of the code: the loop is left toward the return only from the
\* last of the n_simulations draws, and the results are those of all of them
C17_ReturnsOnlyAfterAllDraws ==
    /\ pc \in {"bin", "done"} =>
           draw_i = n_simulations /\ Len(simulated_ratings) = n_simulations
    /\ pc = "done" => SumSeq(rating_probs) <= n_simulations

\* one draw is completed and the next is under way
C17_MidRunReached ==
    pc = "draw" /\ CompletedDraws = 1 /\ col_k = 2 /\ n_simulations = 2

-----------------------------------------------------------------------------
(* Properties of calculate_improvement_path and generate_improvement_report  *)
(* (SpecPath)                                                                *)

PathReturned == improvement_path.exc = "none"

PathRows == improvement_path.rows

\* the measures the claims call eligible
Eligible ==
    {m \in PathMeasures :
        /\ m \in DOMAIN measure_weights
        /\ ~isna(current_stars[m]) /\ current_stars[m] # 5
        /\ ~isna(current_distances[m])}

\* the sum of the weights of all measures with a defined rating
IncludedWeight ==
    LET rated == {m \in PathMeasures : ~isna(current_stars[m])}
    IN Total(rated, [m \in rated |-> measure_weights[m]])

\* the sum of the weights of the first k rows of the path
PrefixWeight(k) == Total(1..k, [j \in 1..k |-> PathRows[j].Weight])

\* the positions whose reported cumulative rating impact is >= target_rating
Reaching == {k \in 1..Len(PathRows) : PathRows[k].Cumulative_Rating_Impact >= target_rating}

\* the measures of the first k rows
PrefixMeasures(k) == [j \in 1..k |-> PathRows[j].Measure]

\* C12 as claimed: when some prefix of the ordered path reaches the target,
\* the measures reported as needed by calculate_improvement_path, and those
\* recommended by generate_improvement_report, are exactly the shortest prefix
\* whose cumulative rating impact is >= target_rating; a single eligible
\* measure that reaches the target gives a one-row path and a reached target.
C12_NeededIsShortestPrefix ==
    (PathReturned /\ Reaching # {}) =>
        /\ improvement_path.measures_needed = PrefixMeasures(Min(Reaching))
        /\ report.exc # "pending" =>
               /\ report.exc = "none" /\ ~report.note
               /\ report.recommended = PrefixMeasures(Min(Reaching))
        /\ Cardinality(Eligible) = 1 =>
               Len(PathRows) = 1 /\ Len(improvement_path.measures_needed) = 1

\* what holds of the code: the rows reported as needed are the first
\* (label + 1) rows, where label is the position the first reaching row had
\* before the sort
C12_NeededCountIsLabelOfFirstReaching ==
    (PathReturned /\ Reaching # {}) =>
        LET n == PathRows[Min(Reaching)].label + 1
        IN improvement_path.measures_needed =
               PrefixMeasures(IF n < Len(PathRows) THEN n ELSE Len(PathRows))

\* the first row alone reaches the target and two rows are reported as needed
C12_TooManyReached ==
    /\ PathReturned /\ Reaching # {} /\ Min(Reaching) = 1
    /\ Len(improvement_path.measures_needed) = 2

\* the rows reported as needed do not reach the target
C12_TooFewReached ==
    /\ PathReturned /\ Reaching # {}
    /\ Len(improvement_path.measures_needed) < Min(Reaching)

\* C13 as claimed: when no prefix of the path reaches the target, the full
\* list of eligible measures is returned and the result carries the
\* target-unreachable signal (the note of the report); the signal is given
\* exactly in this case.
C13_UnreachableIsSignalled ==
    PathReturned =>
        /\ {PathRows[k].Measure : k \in 1..Len(PathRows)} = Eligible
        /\ report.exc # "pending" =>
               /\ report.exc = "none"
               /\ report.note <=> (Reaching = {})

\* no measure is eligible, so no prefix reaches the target, and the report
\* raises instead of giving the signal
C13_EmptyPathReportRaises ==
    /\ PathReturned /\ Eligible = {} /\ report.exc = "ValueError"

\* C14: the rows of the returned path are in ascending order of
\* |distance| / weight: for two consecutive rows the Distance_per_Weight of the
\* earlier is <= that of the later (inf for weight 0), both as reported and
\* unrounded; the rows are the opportunities, each once.
C14_OrderedByEfficiency ==
    PathReturned =>
        /\ \A k \in 1..(Len(PathRows) - 1) :
               /\ PathRows[k].Distance_per_Weight <= PathRows[k + 1].Distance_per_Weight
               /\ (PathRows[k].Weight > 0 /\ PathRows[k + 1].Weight > 0
                   /\ Abs(PathRows[k].Distance_to_Next) # PosInf
                   /\ Abs(PathRows[k + 1].Distance_to_Next) # PosInf) =>
                      Abs(PathRows[k].Distance_to_Next) * PathRows[k + 1].Weight
                          <= Abs(PathRows[k + 1].Distance_to_Next) * PathRows[k].Weight
        /\ \A k \in 1..Len(PathRows) :
               /\ PathRows[k].Distance_to_Next = current_distances[PathRows[k].Measure]
               /\ PathRows[k].Weight = measure_weights[PathRows[k].Measure]
               /\ ~isna(PathRows[k].Distance_per_Weight)
        /\ {PathRows[k].label : k \in 1..Len(PathRows)} = 0..(Len(PathRows) - 1)

\* the sort acted: three rows, none in its column position, of strictly
\* growing finite Distance_per_Weight, one of a negative distance
C14_Witness ==
    /\ PathReturned /\ Len(PathRows) = 3
    /\ PathRows[1].label = 2 /\ PathRows[2].label = 0 /\ PathRows[3].label = 1
    /\ PathRows[1].Distance_per_Weight < PathRows[2].Distance_per_Weight
    /\ PathRows[2].Distance_per_Weight < PathRows[3].Distance_per_Weight
    /\ PathRows[3].Distance_per_Weight < PosInf
    /\ \E k \in 1..3 : PathRows[k].Distance_to_Next < 0

\* C15: the returned path contains exactly the weighted measures whose rating
\* is defined and not 5 and whose distance is defined, each once.
C15_PathHoldsEligibleMeasures ==
    PathReturned =>
        /\ {PathRows[k].Measure : k \in 1..Len(PathRows)} = Eligible
        /\ Len(PathRows) = Cardinality(Eligible)
        /\ improvement_path.empty <=> (Eligible = {})

\* a path of one measure, next to a measure at 5 stars and a measure whose
\* rating is defined and whose distance is not
C15_Witness ==
    /\ PathReturned /\ Len(PathRows) = 1
    /\ \E m \in PathMeasures : current_stars[m] = 5 /\ measure_weights[m] > 0
    /\ \E m \in PathMeasures : ~isna(current_stars[m]) /\ current_stars[m] # 5
                               /\ isna(current_distances[m])

\* a measure without weight and without rating is left out of a returned path
C15_UnweightedLeftOut ==
    /\ PathReturned /\ Len(PathRows) = 2
    /\ \E m \in PathMeasures : m \notin DOMAIN measure_weights

ExactlyReachedAt(k) ==
    current_weighted_avg * IncludedWeight + Milli * PrefixWeight(k)
        >= target_rating * IncludedWeight

\* C23 as claimed: the target counts as reached at a row only if the row's
\* unrounded cumulative rating impact, current_weighted_avg plus the sum of
\* the marginal impacts, is >= target_rating: the rounding to 3 decimals never
\* turns an unreached target into a reached one.
C23_ReachedOnlyIfExactlyReached ==
    (PathReturned /\ ~improvement_path.empty) =>
        /\ \A k \in Reaching : ExactlyReachedAt(k)
        /\ improvement_path.target_idx # -1 => \E k \in 1..Len(PathRows) : ExactlyReachedAt(k)
        /\ (report.exc = "none" /\ ~report.note) => \E k \in 1..Len(PathRows) : ExactlyReachedAt(k)

\* what holds of the code: the target counts as reached exactly when the
\* rounded cumulative impact of some row is >= target_rating, which the
\* unrounded impact may miss by up to half a thousandth
C23_ReachedOnRoundedImpact ==
    (PathReturned /\ ~improvement_path.empty) =>
        /\ improvement_path.target_idx # -1 <=> Reaching # {}
        /\ \A k \in Reaching :
               2 * (target_rating * IncludedWeight
                    - (current_weighted_avg * IncludedWeight + Milli * PrefixWeight(k)))
                   <= IncludedWeight

\* the target counts as reached, measures are reported as needed, and no row's
\* unrounded cumulative impact reaches it
C23_RoundedUpReached ==
    /\ PathReturned /\ improvement_path.target_idx # -1
    /\ Len(improvement_path.measures_needed) >= 1
    /\ \A k \in 1..Len(PathRows) : ~ExactlyReachedAt(k)

\* every measure with a defined rating has a weight >= 0
LegalWeights ==
    /\ \A m \in PathMeasures : ~isna(current_stars[m]) => m \in DOMAIN measure_weights
    /\ \A m \in DOMAIN measure_weights : measure_weights[m] >= 0

\* C24 as claimed: for every legal weight map, maps with zero weights
\* included, calculate_improvement_path returns a path (possibly empty) and
\* raises no division error: so for an eligible measure of weight 0 and for a
\* row whose total included weight is 0.
C24_ZeroWeightsReturnAPath ==
    (improvement_path.exc # "pending" /\ LegalWeights) => PathReturned

\* what holds of the code: with legal weights the call raises exactly when a
\* measure is eligible and the total included weight is 0, and then
\* ZeroDivisionError; an eligible measure of weight 0 next to a positive total
\* is returned with an infinite Distance_per_Weight
C24_ZeroTotalWeightRaises ==
    (improvement_path.exc # "pending" /\ LegalWeights) =>
        /\ improvement_path.exc \in {"none", "ZeroDivisionError"}
        /\ improvement_path.exc = "ZeroDivisionError" <=>
               (Eligible # {} /\ IncludedWeight = 0)
        /\ PathReturned =>
               \A k \in 1..Len(PathRows) :
                   PathRows[k].Weight = 0 => PathRows[k].Distance_per_Weight = PosInf

\* the division by a total included weight of 0 raised
C24_DivisionErrorReached ==
    /\ improvement_path.exc = "ZeroDivisionError" /\ LegalWeights
    /\ \A m \in PathMeasures : measure_weights[m] = 0

\* a path was returned that holds an eligible measure of weight 0
C24_ZeroWeightRowReached ==
    /\ PathReturned /\ Len(PathRows) = 2
    /\ PathRows[1].Weight > 0
    /\ PathRows[2].Weight = 0 /\ PathRows[2].Distance_per_Weight = PosInf

-----------------------------------------------------------------------------
(* Properties of evaluate_measure_improvement_value (SpecValue) *)

Valued == valuation.exc = "none"

\* the levels that have a value
ValuedLevels == DOMAIN star_values \cap 1..5

\* the sum over the valued levels of probability * value, for the
\* probabilities of a scenario (a function on the levels)
ExpectedValue(probabilities) ==
    Total(ValuedLevels, [lv \in ValuedLevels |-> probabilities[lv] * star_values[lv]])

\* C16 as claimed: the call computes the economic value of each scenario as
\* the sum over the rating levels of probability * star_values[level]; a level
\* without value contributes 0 and raises no error.
C16_ExpectedEconomicValue ==
    valuation.exc # "pending" =>
        /\ Valued
        /\ valuation.baseline.economic_value
               = ExpectedValue(valuation.baseline.rating_probabilities)
        /\ valuation.improved.economic_value
               = ExpectedValue(valuation.improved.rating_probabilities)

\* what holds of the code: every call ends with NameError, whatever the
\* arguments, before a simulation is started or a draw is taken
C16_EveryCallRaisesNameError ==
    valuation.exc # "pending" =>
        /\ valuation.exc = "NameError"
        /\ pc = "idle" /\ run_starts = <<>> /\ returned = <<>>

\* the call of the example of C16 (values {3: 100, 4: 200}) has raised
C16_NameErrorReached ==
    /\ valuation.exc = "NameError"
    /\ DOMAIN star_values = {3, 4} /\ star_values[3] = 100 /\ star_values[4] = 200
    /\ adjustments = <<>>

-----------------------------------------------------------------------------
(* Properties of two calls of the simulation in one process (SpecSeeded) *)

SameRating(a, b) == (a.den = 0 /\ b.den = 0) \/ (a.den > 0 /\ b.den > 0 /\ a.num * b.den = b.num * a.den)

\* identical simulated ratings, rating probabilities and expected rating (the
\* standard deviation is a function of the simulated ratings)
SameResult(a, b) ==
    /\ Len(a.simulated_ratings) = Len(b.simulated_ratings)
    /\ \A j \in 1..Len(a.simulated_ratings) :
           SameRating(a.simulated_ratings[j], b.simulated_ratings[j])
    /\ a.rating_probabilities = b.rating_probabilities
    /\ SameRating(a.expected_rating, b.expected_rating)

\* the generator state after so many numbers were taken
RECURSIVE rng_after(_, _)
rng_after(state, taken) ==
    IF taken = 0 THEN state ELSE rng_after(rng_next(state), taken - 1)

\* C18 as claimed: two calls without adjustments on the same arguments, in a
\* process seeded with the same seed, return identical results: the result
\* depends on the arguments and the seed only, and no state left by the
\* earlier call changes it.
C18_SecondCallIsIdentical ==
    pc = "done" => SameResult(returned[1], returned[2])

\* what holds of the code: the second call begins in the generator state the
\* first call left, one number further for every modelled measure of every
\* draw; two calls that begin in the same generator state return identical
\* results, the sampled values included
C18_IdenticalFromSameGeneratorState ==
    /\ Len(run_starts) = 2 =>
           run_starts[2] = rng_after(run_starts[1],
                                     n_simulations * Cardinality(Measures \cap models))
    /\ (pc = "done" /\ run_starts[1] = run_starts[2]) =>
           /\ SameResult(returned[1], returned[2])
           /\ returned[1].simulated_measures = returned[2].simulated_measures

\* the second call began in the state the first call left and its ratings
\* differ
C18_DifferentReached ==
    /\ pc = "done" /\ run_starts[1] # run_starts[2]
    /\ \E lv \in 1..5 :
           returned[1].rating_probabilities[lv] # returned[2].rating_probabilities[lv]

\* the two calls returned the same ratings and other sampled values
C18_SameRatingsOtherSamplesReached ==
    /\ pc = "done" /\ SameResult(returned[1], returned[2])
    /\ returned[1].simulated_measures # returned[2].simulated_measures

====
